---- MODULE Spec2Model ----
(***************************************************************************)
(* CorrelationEngine of ctf-sentinel (src/correlation_report.py) as a      *)
(* state machine.                                                          *)
(*                                                                         *)
(* Representation                                                          *)
(*  - a Python str is a sequence of one-character strings, so that         *)
(*    lower() and strip() are computed character by character;             *)
(*  - a Python dict with string field names is a TLA+ function whose       *)
(*    DOMAIN is the set of fields present: reading an absent field is the  *)
(*    KeyError of the code;                                                *)
(*  - correlation_map, an insertion-ordered defaultdict, is                *)
(*    [keys |-> sequence of keys in insertion order, val |-> key -> dict]; *)
(*  - a float score is an integer number of hundredths (0.5 is 50);        *)
(*  - None is the string NoneValue, which no type tag of the model equals; *)
(*  - correlation_map and relationships are the attributes of the engine   *)
(*    the caller is using; other holds those of a second instance.         *)
(***************************************************************************)
EXTENDS Integers, Sequences, FiniteSets, TLC

VARIABLES correlation_map, relationships, str_hash, lastCall, returned, other

vars == <<correlation_map, relationships, str_hash, lastCall, returned, other>>

(***************************************************************************)
(* Bounds of the model.                                                    *)
(***************************************************************************)
MaxBatch == 2          \* observations in one add_parsed_entities call
MaxOccurrences == 2    \* occurrences stored in the whole map
MaxRelationships == 2  \* correlate() is not called on a longer list
MaxShared == 4         \* occurrences stored by the engine of SpecShared
MaxLen == 2            \* characters in a value ingested under SpecNormalize

(***************************************************************************)
(* Strings.                                                                *)
(***************************************************************************)
NoneValue == "<None>"

RAW_DATA == <<"r", "a", "w", "_", "d", "a", "t", "a">>

Whitespace == {" ", "\t"}

\* Lower that swaps the case of a letter
Lower_SwapCase(c) ==
  CASE c = "A" -> "a"
    [] c = "a" -> "A"
    [] OTHER -> c

\* str.lower() on one character
Lower(c) ==
  CASE c = "A" -> "a"
    [] c = "B" -> "b"
    [] c = "D" -> "d"
    [] c = "R" -> "r"
    [] c = "T" -> "t"
    [] c = "W" -> "w"
    [] OTHER -> c

LowerStr(s) == [i \in 1..Len(s) |-> Lower(s[i])]

RECURSIVE LStrip(_)
LStrip(s) ==
  IF s # <<>> /\ Head(s) \in Whitespace THEN LStrip(Tail(s)) ELSE s

RECURSIVE RStrip(_)
RStrip(s) ==
  IF s # <<>> /\ s[Len(s)] \in Whitespace
    THEN RStrip(SubSeq(s, 1, Len(s) - 1))
    ELSE s

Strip(s) == RStrip(LStrip(s))

\* value.lower().strip()
_normalize_key(value) == Strip(LowerStr(value))

(***************************************************************************)
(* The insertion-ordered dict.                                             *)
(***************************************************************************)
EmptyMap == [keys |-> <<>>, val |-> <<>>]

Has(m, k) == k \in DOMAIN m.val

\* m[k] = v: a new key goes to the end of the order, an old one keeps its
\* place.
Put(m, k, v) ==
  IF Has(m, k)
    THEN [m EXCEPT !.val = [x \in DOMAIN m.val |-> IF x = k THEN v ELSE m.val[x]]]
    ELSE [keys |-> Append(m.keys, k),
          val |-> [x \in DOMAIN m.val \cup {k} |-> IF x = k THEN v ELSE m.val[x]]]

\* d with field f set to v (d[f] = v on a plain dict)
SetField(d, f, v) == [x \in DOMAIN d \cup {f} |-> IF x = f THEN v ELSE d[x]]

\* DefaultRecord with a final_score of 0.0 set by the factory
DefaultRecord_Scored ==
  [type |-> NoneValue, sources |-> {}, linked_entities |-> {},
   metadata |-> <<>>, importance |-> 0, final_score |-> 0]

\* the default_factory of the defaultdict
DefaultRecord ==
  [type |-> NoneValue, sources |-> {}, linked_entities |-> {},
   metadata |-> <<>>, importance |-> 0]

\* Touch that stores a fresh default record on every access
Touch_Fresh(m, k) == Put(m, k, DefaultRecord)

\* defaultdict.__getitem__: a missing key is created with the default record
Touch(m, k) == IF Has(m, k) THEN m ELSE Put(m, k, DefaultRecord)

Max(a, b) == IF a >= b THEN a ELSE b
Min(a, b) == IF a <= b THEN a ELSE b

(***************************************************************************)
(* Inputs.                                                                 *)
(***************************************************************************)
Sources == {"s1", "s2"}

Contents == {"x", "y"}

\* entity dicts as the extractor (or a caller) hands them over
Observations ==
  { [value |-> <<"a">>, type |-> "EMAIL"],
    [value |-> <<"A", " ">>, type |-> "CTF_FLAG"],
    [value |-> <<"b">>, type |-> "CTF_FLAG"],
    [value |-> RAW_DATA, type |-> "EMAIL"] }

\* entity dicts that carry an importance_score, in and out of [0, 1]
ScoredObservations ==
  { [value |-> <<"b">>, type |-> "EMAIL", importance_score |-> 200],
    [value |-> <<"a">>, type |-> "EMAIL", importance_score |-> -50] }

\* entity dicts that lack a required field
MalformedObservations ==
  { [value |-> <<"a">>], [type |-> "EMAIL"] }

WellFormed(entity) == "value" \in DOMAIN entity /\ "type" \in DOMAIN entity

\* parsed_entities.items() with each list laid out: the <<source, entity>>
\* pairs in the order the two loops of add_parsed_entities visit them.  The
\* entities of one source are contiguous, as they are in a dict of lists.
Contiguous(b) ==
  \A i, j \in 1..Len(b) :
    (i < j /\ b[i][1] = b[j][1]) => \A k \in i..j : b[k][1] = b[i][1]

BatchesOfLen(observations, n) ==
  { b \in [1..n -> Sources \X observations] : Contiguous(b) }

\* the batches over a set of observations, by length
Batches(observations) ==
  [n \in 0..MaxBatch |-> BatchesOfLen(observations, n)]

ParsedInputs == Batches(Observations)

\* raw_data.items(): at most one <<source, content>> pair per call
RawInputs == { <<p>> : p \in {"s1"} \X Contents }

\* arguments of get_entity_details
Lookups == { <<" ", "B">>, RAW_DATA, <<"c">> }

(***************************************************************************)
(* add_raw_data                                                            *)
(***************************************************************************)
CorpusRecord == [type |-> "metadata", sources |-> {}, data |-> <<>>]

\* one iteration of the loop of add_raw_data
StoreRaw(m, source, content) ==
  LET m1 == IF ~Has(m, RAW_DATA) THEN Put(m, RAW_DATA, CorpusRecord) ELSE m
      rec == m1.val[RAW_DATA]
  IN  IF "data" \notin DOMAIN rec
        THEN [map |-> m1, raised |-> "KeyError"]
        ELSE [map |-> Put(m1, RAW_DATA,
                          SetField(rec, "data", SetField(rec.data, source, content))),
              raised |-> "none"]

RECURSIVE StoreAll(_, _, _)
StoreAll(m, raw, i) ==
  IF i > Len(raw) THEN [map |-> m, raised |-> "none"]
  ELSE LET r == StoreRaw(m, raw[i][1], raw[i][2])
       IN  IF r.raised # "none" THEN r ELSE StoreAll(r.map, raw, i + 1)

(***************************************************************************)
(* add_parsed_entities                                                     *)
(***************************************************************************)
\* entity.get('importance_score', 0.5)
ImportanceOf(entity) ==
  IF "importance_score" \in DOMAIN entity THEN entity.importance_score ELSE 50

\* UpdateRecord with the importance taken from the latest observation
\* instead of the running maximum
UpdateRecord_LatestHint(m, source, entity) ==
  LET entity_key == _normalize_key(entity.value)
      m1 == Touch(m, entity_key)
      r1 == m1.val[entity_key]
      r2 == IF r1.type = NoneValue THEN SetField(r1, "type", entity.type) ELSE r1
      r3 == SetField(r2, "sources", r2.sources \cup {source})
  IN  IF "importance" \notin DOMAIN r3
        THEN [map |-> Put(m1, entity_key, r3), raised |-> "KeyError"]
        ELSE
          LET r4 == SetField(r3, "importance", ImportanceOf(entity))
              r5 == IF "occurrences" \notin DOMAIN r4
                      THEN SetField(r4, "occurrences", <<>>) ELSE r4
              r6 == SetField(r5, "occurrences", Append(r5.occurrences, entity))
          IN  [map |-> Put(m1, entity_key, r6), raised |-> "none"]

\* lines 78-90: the statements of the loop body that follow the two reads
\* entity['value'] and entity['type']
UpdateRecord(m, source, entity) ==
  LET entity_key == _normalize_key(entity.value)
      m1 == Touch(m, entity_key)
      r1 == m1.val[entity_key]
      r2 == IF r1.type = NoneValue THEN SetField(r1, "type", entity.type) ELSE r1
      r3 == SetField(r2, "sources", r2.sources \cup {source})
  IN  IF "importance" \notin DOMAIN r3
        THEN [map |-> Put(m1, entity_key, r3), raised |-> "KeyError"]
        ELSE
          LET r4 == SetField(r3, "importance", Max(r3.importance, ImportanceOf(entity)))
              r5 == IF "occurrences" \notin DOMAIN r4
                      THEN SetField(r4, "occurrences", <<>>) ELSE r4
              r6 == SetField(r5, "occurrences", Append(r5.occurrences, entity))
          IN  [map |-> Put(m1, entity_key, r6), raised |-> "none"]

\* IngestEntity with the record looked up (and so created) before
\* entity['type'] is read
IngestEntity_RecordFirst(m, source, entity) ==
  IF "value" \notin DOMAIN entity THEN [map |-> m, raised |-> "KeyError"]
  ELSE IF "type" \notin DOMAIN entity
    THEN [map |-> Touch(m, _normalize_key(entity.value)), raised |-> "KeyError"]
  ELSE UpdateRecord(m, source, entity)

\* the body of the inner loop of add_parsed_entities: entity['value'] and
\* entity['type'] are read before the map is touched
IngestEntity(m, source, entity) ==
  IF "value" \notin DOMAIN entity THEN [map |-> m, raised |-> "KeyError"]
  ELSE IF "type" \notin DOMAIN entity THEN [map |-> m, raised |-> "KeyError"]
  ELSE UpdateRecord(m, source, entity)

\* the two loops: the first exception ends the call and keeps what was done
RECURSIVE IngestAll(_, _, _)
IngestAll(m, batch, i) ==
  IF i > Len(batch) THEN [map |-> m, raised |-> "none"]
  ELSE LET r == IngestEntity(m, batch[i][1], batch[i][2])
       IN  IF r.raised # "none" THEN r ELSE IngestAll(r.map, batch, i + 1)

(***************************************************************************)
(* correlate                                                               *)
(***************************************************************************)
\* list(a_set): the iteration order of a set of str follows the string
\* hashes of the running interpreter; str_hash gives each source its place.
RECURSIVE ListOf(_, _)
ListOf(S, h) ==
  IF S = {} THEN <<>>
  ELSE LET first == CHOOSE x \in S : \A y \in S : h[x] <= h[y]
       IN  <<first>> \o ListOf(S \ {first}, h)

\* EntityKeys that walks the keys from the latest inserted to the first
EntityKeys_Reversed(m) ==
  LET ks == SelectSeq(m.keys, LAMBDA k : k # RAW_DATA)
  IN  [i \in 1..Len(ks) |-> ks[Len(ks) + 1 - i]]

\* [k for k in self.correlation_map.keys() if k != 'raw_data']
EntityKeys(m) == SelectSeq(m.keys, LAMBDA k : k # RAW_DATA)

\* LinkPair that links entity1 to entity2 and not back
LinkPair_OneWay(st, entity1, entity2, h) ==
  LET common_sources == st.map.val[entity1].sources \cap st.map.val[entity2].sources
  IN  IF common_sources # {}
        THEN
          LET rec1 == st.map.val[entity1]
          IN  [map |-> Put(st.map, entity1,
                           SetField(rec1, "linked_entities",
                                    rec1.linked_entities \cup {entity2})),
               rels |-> Append(st.rels,
                               [entity1 |-> entity1,
                                entity2 |-> entity2,
                                relationship |-> "co_occurrence",
                                sources |-> ListOf(common_sources, h),
                                strength |-> Cardinality(common_sources)])]
        ELSE st

\* the body of the inner loop of _find_entity_links for one pair
LinkPair(st, entity1, entity2, h) ==
  LET sources1 == st.map.val[entity1].sources
      sources2 == st.map.val[entity2].sources
      common_sources == sources1 \cap sources2
  IN  IF common_sources # {}
        THEN
          LET rec1 == st.map.val[entity1]
              ma == Put(st.map, entity1,
                        SetField(rec1, "linked_entities",
                                 rec1.linked_entities \cup {entity2}))
              rec2 == ma.val[entity2]
              mb == Put(ma, entity2,
                        SetField(rec2, "linked_entities",
                                 rec2.linked_entities \cup {entity1}))
          IN  [map |-> mb,
               rels |-> Append(st.rels,
                               [entity1 |-> entity1,
                                entity2 |-> entity2,
                                relationship |-> "co_occurrence",
                                sources |-> ListOf(common_sources, h),
                                strength |-> Cardinality(common_sources)])]
        ELSE st

\* for i, entity1 in enumerate(entities): for entity2 in entities[i+1:]
RECURSIVE LinkLoop(_, _, _, _, _)
LinkLoop(st, entities, i, j, h) ==
  IF i > Len(entities) THEN st
  ELSE IF j > Len(entities) THEN LinkLoop(st, entities, i + 1, i + 2, h)
  ELSE LinkLoop(LinkPair(st, entities[i], entities[j], h), entities, i, j + 1, h)

\* _find_entity_links: self.relationships is appended to, never emptied
_find_entity_links(m, rels, h) ==
  LinkLoop([map |-> m, rels |-> rels], EntityKeys(m), 1, 2, h)

\* ScoreOf without the final min(..., 1.0)
ScoreOf_Unclamped(entity_data) ==
  entity_data.importance
    + Min(Cardinality(entity_data.sources) * 10, 30)
    + Min(Cardinality(entity_data.linked_entities) * 5, 20)

\* ScoreOf that starts from the score of the previous pass when there is one
ScoreOf_Compounding(entity_data) ==
  LET base_score == IF "final_score" \in DOMAIN entity_data
                      THEN entity_data.final_score ELSE entity_data.importance
      source_boost == Min(Cardinality(entity_data.sources) * 10, 30)
      link_boost == Min(Cardinality(entity_data.linked_entities) * 5, 20)
  IN  Min(base_score + source_boost + link_boost, 100)

\* the body of the loop of _calculate_entity_scores for one record
ScoreOf(entity_data) ==
  LET base_score == entity_data.importance
      source_boost == Min(Cardinality(entity_data.sources) * 10, 30)
      link_boost == Min(Cardinality(entity_data.linked_entities) * 5, 20)
  IN  Min(base_score + source_boost + link_boost, 100)

\* _calculate_entity_scores: every key but 'raw_data' gets a final_score
_calculate_entity_scores(m) ==
  [m EXCEPT !.val =
     [k \in DOMAIN m.val |->
        IF k = RAW_DATA THEN m.val[k]
        ELSE SetField(m.val[k], "final_score", ScoreOf(m.val[k]))]]

\* self.correlation_map[k].get('final_score', 0)
FinalScore(rec) == IF "final_score" \in DOMAIN rec THEN rec.final_score ELSE 0

REPORT_HIGH_VALUE_THRESHOLD == 80

\* Compile that counts every key of the map, the corpus key included
Compile_EveryKey(m, rels) ==
  LET entities == EntityKeys(m)
      OfType(t) == SelectSeq(entities, LAMBDA k : m.val[k].type = t)
      high_value == SelectSeq(entities,
                      LAMBDA k : FinalScore(m.val[k]) >= REPORT_HIGH_VALUE_THRESHOLD)
      linked == SelectSeq(entities, LAMBDA k : m.val[k].linked_entities # {})
  IN  [total_entities |-> Len(m.keys),
       linked_count |-> Len(linked),
       high_value_count |-> Len(high_value),
       ctf_flags |-> OfType("CTF_FLAG"),
       api_keys |-> OfType("API_KEY"),
       credentials |-> OfType("CREDENTIAL"),
       relationships |-> rels,
       high_value_entities |-> high_value]

\* the statistics correlate() compiles and returns
Compile(m, rels) ==
  LET entities == EntityKeys(m)
      OfType(t) == SelectSeq(entities, LAMBDA k : m.val[k].type = t)
      high_value == SelectSeq(entities,
                      LAMBDA k : FinalScore(m.val[k]) >= REPORT_HIGH_VALUE_THRESHOLD)
      linked == SelectSeq(entities, LAMBDA k : m.val[k].linked_entities # {})
  IN  [total_entities |-> Len(entities),
       linked_count |-> Len(linked),
       high_value_count |-> Len(high_value),
       ctf_flags |-> OfType("CTF_FLAG"),
       api_keys |-> OfType("API_KEY"),
       credentials |-> OfType("CREDENTIAL"),
       relationships |-> rels,
       high_value_entities |-> high_value]

\* CorrelateStep that compiles the statistics before the scores are computed
CorrelateStep_CompileFirst(m, rels, h) ==
  LET linked == _find_entity_links(m, rels, h)
      scored == _calculate_entity_scores(linked.map)
  IN  [map |-> scored, rels |-> linked.rels,
       result |-> Compile(linked.map, linked.rels)]

\* correlate(): link discovery, scoring, statistics
CorrelateStep(m, rels, h) ==
  LET linked == _find_entity_links(m, rels, h)
      scored == _calculate_entity_scores(linked.map)
  IN  [map |-> scored, rels |-> linked.rels, result |-> Compile(scored, linked.rels)]

(***************************************************************************)
(* The engine.                                                             *)
(***************************************************************************)
StrHashes == { h \in [Sources -> 1..Cardinality(Sources)] :
                 \A s, t \in Sources : s # t => h[s] # h[t] }

RECURSIVE SumOccurrences(_, _)
SumOccurrences(m, ks) ==
  IF ks = {} THEN 0
  ELSE LET k == CHOOSE x \in ks : TRUE
       IN  (IF "occurrences" \in DOMAIN m.val[k] THEN Len(m.val[k].occurrences) ELSE 0)
           + SumOccurrences(m, ks \ {k})

TotalOccurrences(m) == SumOccurrences(m, DOMAIN m.val)

\* returned: what the caller was handed by the correlate() calls made since
\* the latest add_* call, the two latest of them: the result dict as it
\* stood at the return, and the records as they stood then.
Latest(rs, e) == IF Len(rs) = 0 THEN <<e>> ELSE <<rs[Len(rs)], e>>

\* the final_score values a correlate() call is about to overwrite
ScoresOf(m) ==
  [k \in {x \in DOMAIN m.val : "final_score" \in DOMAIN m.val[x]} |->
     m.val[k].final_score]

\* 'relationships': self.relationships puts the engine's own list in the
\* result, not a copy: what a caller holding the result r reads in it is the
\* list as it is now. The other fields are lists built by the call.
HeldResult(r) == [r.result EXCEPT !.relationships = relationships]

\* CorrelationEngine()
Init ==
  /\ correlation_map = EmptyMap
  /\ relationships = <<>>
  /\ str_hash \in StrHashes
  /\ lastCall = [op |-> "__init__", raised |-> "none", ret |-> <<>>]
  /\ returned = <<>>
  /\ other = [correlation_map |-> EmptyMap, relationships |-> <<>>]

add_raw_data(raw_data) ==
  LET r == StoreAll(correlation_map, raw_data, 1)
  IN  /\ correlation_map' = r.map
      /\ lastCall' = [op |-> "add_raw_data", raised |-> r.raised, ret |-> <<>>]
      /\ returned' = <<>>
      /\ UNCHANGED <<relationships, str_hash, other>>

\* the call add_parsed_entities(parsed_entities), on any batch
Ingest(parsed_entities) ==
  /\ LET r == IngestAll(correlation_map, parsed_entities, 1)
     IN  /\ correlation_map' = r.map
         /\ lastCall' = [op |-> "add_parsed_entities", raised |-> r.raised,
                         ret |-> <<>>]
  /\ returned' = <<>>
  /\ UNCHANGED <<relationships, str_hash, other>>

add_parsed_entities(parsed_entities) ==
  /\ TotalOccurrences(correlation_map) + Len(parsed_entities) <= MaxOccurrences
  /\ Ingest(parsed_entities)

\* correlate with the relationship list a class attribute, one list for
\* all instances
correlate_ClassLevelList ==
  /\ Len(relationships) < MaxRelationships
  /\ LET r == CorrelateStep(correlation_map, relationships, str_hash)
     IN  /\ correlation_map' = r.map
         /\ relationships' = r.rels
         /\ other' = [other EXCEPT !.relationships = r.rels]
         /\ lastCall' = [op |-> "correlate", raised |-> "none",
                         ret |-> <<ScoresOf(correlation_map)>>]
         /\ returned' = Latest(returned, [result |-> r.result,
                                          records |-> r.map.val])
  /\ UNCHANGED str_hash

\* lastCall.ret of a correlate() holds the scores the call replaced
correlate ==
  /\ Len(relationships) < MaxRelationships
  /\ LET r == CorrelateStep(correlation_map, relationships, str_hash)
     IN  /\ correlation_map' = r.map
         /\ relationships' = r.rels
         /\ lastCall' = [op |-> "correlate", raised |-> "none",
                         ret |-> <<ScoresOf(correlation_map)>>]
         /\ returned' = Latest(returned, [result |-> r.result,
                                          records |-> r.map.val])
  /\ UNCHANGED <<str_hash, other>>

\* self.correlation_map.get(normalized_key): no record is created
get_entity_details(entity_key) ==
  LET normalized_key == _normalize_key(entity_key)
  IN  /\ lastCall' = [op |-> "get_entity_details", raised |-> "none",
                      ret |-> IF Has(correlation_map, normalized_key)
                                THEN <<correlation_map.val[normalized_key]>>
                                ELSE <<>>]
      /\ UNCHANGED <<correlation_map, relationships, str_hash, returned, other>>

\* the batch lengths that the bound on stored occurrences leaves room for
Room ==
  0..Min(MaxBatch, MaxOccurrences - TotalOccurrences(correlation_map))

Next ==
  \/ \E raw_data \in RawInputs : add_raw_data(raw_data)
  \/ \E n \in Room : \E parsed_entities \in ParsedInputs[n] :
       add_parsed_entities(parsed_entities)
  \/ correlate
  \/ \E entity_key \in Lookups : get_entity_details(entity_key)

Spec == Init /\ [][Next]_vars

\* The engine fed by a caller that scores some observations itself and
\* passes on some that lack a field.
IngestInputs ==
  Batches({ [value |-> <<"b">>, type |-> "CTF_FLAG"] }
          \cup ScoredObservations \cup MalformedObservations)

NextIngest ==
  \/ \E n \in Room : \E parsed_entities \in IngestInputs[n] :
       add_parsed_entities(parsed_entities)
  \/ correlate

SpecIngest == Init /\ [][NextIngest]_vars

\* The engine fed with the same entities by several collectors, so that two
\* entities can have more than one source in common.
SharedObservations ==
  { [value |-> <<"a">>, type |-> "EMAIL"],
    [value |-> <<"b">>, type |-> "CTF_FLAG"],
    [value |-> <<"c">>, type |-> "CTF_FLAG"] }

SharedInputs == Batches(SharedObservations)

NextShared ==
  \/ \E n \in 0..Min(MaxBatch, MaxShared - TotalOccurrences(correlation_map)) :
       \E parsed_entities \in SharedInputs[n] : Ingest(parsed_entities)
  \/ correlate

SpecShared == Init /\ [][NextShared]_vars

\* The engine fed with every spelling of a value: the strings of upper-case
\* letters and blanks, up to MaxLen characters.
Alphabet == {"A", " "}

Spellings == UNION { [1..n -> Alphabet] : n \in 0..MaxLen }

SpelledObservations == { [value |-> s, type |-> "EMAIL"] : s \in Spellings }

SpelledInputs == Batches(SpelledObservations)

NextNormalize ==
  \E n \in Room : \E parsed_entities \in SpelledInputs[n] :
    add_parsed_entities(parsed_entities)

SpecNormalize == Init /\ [][NextNormalize]_vars

\* The engine fed with observations of one value under several type tags,
\* the empty string and None included.
TypedObservations ==
  { [value |-> <<"a">>, type |-> ""],
    [value |-> <<"a">>, type |-> NoneValue],
    [value |-> <<"A", " ">>, type |-> "EMAIL"],
    [value |-> <<"a">>, type |-> "CTF_FLAG"] }

TypedInputs == Batches(TypedObservations)

NextTyping ==
  \/ \E n \in Room : \E parsed_entities \in TypedInputs[n] :
       add_parsed_entities(parsed_entities)
  \/ correlate

SpecTyping == Init /\ [][NextTyping]_vars

\* The engine fed with observations of the three classified types, under
\* several values.
ClassifiedObservations ==
  { [value |-> RAW_DATA, type |-> "CTF_FLAG"],
    [value |-> <<"a">>, type |-> "API_KEY"],
    [value |-> <<"A", " ">>, type |-> "CREDENTIAL"],
    [value |-> <<"b">>, type |-> "CREDENTIAL"] }

ClassifiedInputs == Batches(ClassifiedObservations)

NextBuckets ==
  \/ \E n \in Room : \E parsed_entities \in ClassifiedInputs[n] :
       add_parsed_entities(parsed_entities)
  \/ correlate

SpecBuckets == Init /\ [][NextBuckets]_vars

\* Two engines in one interpreter.  The caller turns from one instance to
\* the other between calls; the results it holds are of the instance it
\* leaves.
Switch ==
  /\ correlation_map' = other.correlation_map
  /\ relationships' = other.relationships
  /\ other' = [correlation_map |-> correlation_map,
               relationships |-> relationships]
  /\ lastCall' = [op |-> "switch", raised |-> "none", ret |-> <<>>]
  /\ returned' = <<>>
  /\ UNCHANGED str_hash

TwoEngineInputs ==
  Batches({ [value |-> <<"a">>, type |-> "EMAIL"],
            [value |-> <<"b">>, type |-> "CTF_FLAG"] })

\* the batch lengths the bound leaves room for, over both instances
RoomOfTwo ==
  0..Min(MaxBatch, MaxOccurrences - TotalOccurrences(correlation_map)
                                  - TotalOccurrences(other.correlation_map))

NextTwo ==
  \/ \E raw_data \in RawInputs : add_raw_data(raw_data)
  \/ \E n \in RoomOfTwo : \E parsed_entities \in TwoEngineInputs[n] :
       add_parsed_entities(parsed_entities)
  \/ correlate
  \/ Switch

SpecTwo == Init /\ [][NextTwo]_vars

(***************************************************************************)
(* Vocabulary of the properties.                                           *)
(***************************************************************************)
\* a record made by the default factory, i.e. by add_parsed_entities
IsEntityRecord(rec) == "importance" \in DOMAIN rec

\* the corpus entry made by add_raw_data
IsCorpusEntry(rec) == "data" \in DOMAIN rec

\* the identity keys: the keys under which an entity record is stored
IdentityKeys(m) == { k \in DOMAIN m.val : IsEntityRecord(m.val[k]) }

\* AIParser.score_entity_importance: the static table, 0.5 by default.
\* 'HASH' in entity_type is a substring test on the name of the type;
\* TypeNames spells the type tags that are in none of the three lists.
TypeNames ==
  ("HASH" :> <<"H", "A", "S", "H">>)
  @@ ("MD5_HASH" :> <<"M", "D", "5", "_", "H", "A", "S", "H">>)
  @@ ("HASHES" :> <<"H", "A", "S", "H", "E", "S">>)
  @@ ("hash" :> <<"h", "a", "s", "h">>)
  @@ ("HAS_H" :> <<"H", "A", "S", "_", "H">>)
  @@ ("DATE" :> <<"D", "A", "T", "E">>)
  @@ ("" :> <<>>)

\* sub in s, on str
Contains(s, sub) ==
  \E i \in 1..(Len(s) - Len(sub) + 1) : SubSeq(s, i, i + Len(sub) - 1) = sub

HashTypes ==
  { t \in DOMAIN TypeNames : Contains(TypeNames[t], <<"H", "A", "S", "H">>) }

\* score_entity_importance with the hash test an equality
score_entity_importance_ExactHash(entity) ==
  LET entity_type == IF "type" \in DOMAIN entity THEN entity.type ELSE ""
  IN  IF entity_type \in {"CTF_FLAG", "API_KEY", "CREDENTIAL"} THEN 100
      ELSE IF entity_type \in {"IP_ADDRESS", "URL", "FILE_PATH", "EMAIL"} THEN 80
      ELSE IF entity_type \in {"PERSON", "ORG", "GPE"} THEN 60
      ELSE IF entity_type = "HASH" THEN 75
      ELSE 50

score_entity_importance(entity) ==
  LET entity_type == IF "type" \in DOMAIN entity THEN entity.type ELSE ""
  IN  IF entity_type \in {"CTF_FLAG", "API_KEY", "CREDENTIAL"} THEN 100
      ELSE IF entity_type \in {"IP_ADDRESS", "URL", "FILE_PATH", "EMAIL"} THEN 80
      ELSE IF entity_type \in {"PERSON", "ORG", "GPE"} THEN 60
      ELSE IF entity_type \in HashTypes THEN 75
      ELSE 50

\* filter_noise with a strict comparison
FilterLoop_Strict(entities, min_score) ==
  LET scored == [i \in 1..Len(entities) |->
                   SetField(entities[i], "importance_score",
                            score_entity_importance(entities[i]))]
  IN  [entities |-> scored,
       filtered |-> SelectSeq(scored, LAMBDA e : e.importance_score > min_score)]

\* the loop of filter_noise: every entity is scored and the score stored on
\* the entity itself; the entities that pass are appended to filtered (the
\* same dicts, so with the score)
RECURSIVE FilterFrom(_, _, _, _)
FilterFrom(entities, min_score, i, filtered) ==
  IF i > Len(entities) THEN [entities |-> entities, filtered |-> filtered]
  ELSE LET score == score_entity_importance(entities[i])
           entity == SetField(entities[i], "importance_score", score)
           marked == [entities EXCEPT ![i] = entity]
       IN  FilterFrom(marked, min_score, i + 1,
                      IF score >= min_score THEN Append(filtered, entity)
                      ELSE filtered)

FilterLoop(entities, min_score) == FilterFrom(entities, min_score, 1, <<>>)

\* The parser's scoring, called on entities of every kind of type.
ParserTypes ==
  {"CTF_FLAG", "API_KEY", "CREDENTIAL", "IP_ADDRESS", "URL", "FILE_PATH",
   "EMAIL", "PERSON", "ORG", "GPE"} \cup DOMAIN TypeNames

ParserEntities ==
  { [type |-> t, value |-> <<"v">>] : t \in ParserTypes }
  \cup { [value |-> <<"v">>],
         [type |-> "DATE", value |-> <<"v">>, importance_score |-> 100] }

\* the lists passed to filter_noise: one type of each score of the table,
\* an entity with no type, and one that already carries a score
FilteredEntities ==
  { e \in ParserEntities :
      "type" \in DOMAIN e => e.type \in {"CTF_FLAG", "EMAIL", "MD5_HASH", "DATE"} }

ParserLists == UNION { [1..n -> FilteredEntities] : n \in 0..MaxBatch }

\* min_score: the default 0.3, the 0.7 of the tests, the scores of the
\* table, and one above 1.0
MinScores == {30, 50, 70, 75, 100, 110}

score_entity_importance_call(entity) ==
  /\ lastCall' = [op |-> "score_entity_importance", raised |-> "none",
                  ret |-> <<[entity |-> entity,
                            score |-> score_entity_importance(entity)]>>]
  /\ UNCHANGED <<correlation_map, relationships, str_hash, returned, other>>

\* lastCall.ret holds the list that was passed, as the call leaves it, and
\* the list returned
filter_noise(entities, min_score) ==
  /\ LET r == FilterLoop(entities, min_score)
     IN  lastCall' = [op |-> "filter_noise", raised |-> "none",
                      ret |-> <<[entities |-> r.entities,
                                min_score |-> min_score,
                                filtered |-> r.filtered]>>]
  /\ UNCHANGED <<correlation_map, relationships, str_hash, returned, other>>

NextParser ==
  \/ \E entity \in ParserEntities : score_entity_importance_call(entity)
  \/ \E entities \in ParserLists : \E min_score \in MinScores :
       filter_noise(entities, min_score)

SpecParser == Init /\ [][NextParser]_vars

(***************************************************************************)
(* C1  correlate() is idempotent on an unchanged ingested set: two         *)
(* correlate() calls with no add_raw_data / add_parsed_entities call       *)
(* between them return results that are equal in every field, the          *)
(* relationships list with its length and order included.                  *)
(***************************************************************************)
C1_CorrelateIdempotent ==
  Len(returned) = 2 => returned[1].result = returned[2].result

(***************************************************************************)
(* C2  After every correlate() the relationship list holds exactly one     *)
(* record per unordered pair of distinct identity keys that share a        *)
(* source: no pair twice, every sharing pair once, and each record's       *)
(* strength is the number of sources the pair shares now.                  *)
(***************************************************************************)
PairOf(rel) == {rel.entity1, rel.entity2}

Common(m, a, b) == m.val[a].sources \cap m.val[b].sources

SharingPairs(m) ==
  { {a, b} : a \in IdentityKeys(m), b \in IdentityKeys(m) } \cap
  { p \in SUBSET IdentityKeys(m) :
      /\ Cardinality(p) = 2
      /\ \E a \in p : \E b \in p : a # b /\ Common(m, a, b) # {} }

C2_OneRecordPerSharingPair ==
  lastCall.op = "correlate" =>
    /\ \A p \in SharingPairs(correlation_map) :
         Cardinality({ i \in 1..Len(relationships) : PairOf(relationships[i]) = p }) = 1
    /\ \A i \in 1..Len(relationships) :
         /\ PairOf(relationships[i]) \in SharingPairs(correlation_map)
         /\ relationships[i].strength =
              Cardinality(Common(correlation_map, relationships[i].entity1,
                                 relationships[i].entity2))

(***************************************************************************)
(* C3  The identity keys and the corpus store are disjoint namespaces:     *)
(* get_entity_details never returns the corpus entry, add_raw_data never   *)
(* fails on an entity record, and no ingested observation alters the       *)
(* corpus entry (the only field an observation can reach is its sources    *)
(* set, which add_raw_data leaves empty).                                  *)
(***************************************************************************)
C3_DisjointNamespaces ==
  /\ (lastCall.op = "get_entity_details" /\ lastCall.ret # <<>>)
       => ~IsCorpusEntry(lastCall.ret[1])
  /\ lastCall.op = "add_raw_data" => lastCall.raised = "none"
  /\ \A k \in DOMAIN correlation_map.val :
       IsCorpusEntry(correlation_map.val[k]) => correlation_map.val[k].sources = {}

(***************************************************************************)
(* C4  The stored importance of a key is the maximum, over the             *)
(* observations ingested for it, of max(hint if any, table score of the    *)
(* observation's type); so a CTF_FLAG, API_KEY or CREDENTIAL observation   *)
(* with no hint or a lower one gives importance 1.0.                       *)
(***************************************************************************)
ClaimedScore(entity) ==
  IF "importance_score" \in DOMAIN entity
    THEN Max(entity.importance_score, score_entity_importance(entity))
    ELSE score_entity_importance(entity)

RECURSIVE MaxClaimed(_, _)
MaxClaimed(occ, i) ==
  IF i = Len(occ) THEN ClaimedScore(occ[i])
  ELSE Max(ClaimedScore(occ[i]), MaxClaimed(occ, i + 1))

C4_ImportanceIsMaxOfHintAndTable ==
  \A k \in IdentityKeys(correlation_map) :
    LET rec == correlation_map.val[k]
    IN  ("occurrences" \in DOMAIN rec /\ rec.occurrences # <<>>)
          => rec.importance = MaxClaimed(rec.occurrences, 1)

(***************************************************************************)
(* C5  A malformed observation (no 'type' or no 'value') does not abort    *)
(* the batch: after add_parsed_entities the map is what the same call      *)
(* makes of the batch with the malformed observations taken out.           *)
(***************************************************************************)
WithoutMalformed(batch) == SelectSeq(batch, LAMBDA p : WellFormed(p[2]))

C5_MalformedDoesNotAbortBatch ==
  [][lastCall'.op = "add_parsed_entities" =>
       \A n \in Room : \A batch \in IngestInputs[n] :
         add_parsed_entities(batch) =>
           correlation_map' =
             IngestAll(correlation_map, WithoutMalformed(batch), 1).map]_vars

(***************************************************************************)
(* C6  A malformed observation never corrupts ingested state: a call that  *)
(* meets one leaves the map as the observations before it made it (no      *)
(* record is created for it, no record's type, sources, occurrences,       *)
(* importance or linked_entities changes on its account) and leaves the    *)
(* relationship list as it was.                                            *)
(***************************************************************************)
HasMalformed(batch) == \E i \in 1..Len(batch) : ~WellFormed(batch[i][2])

FirstMalformed(batch) ==
  CHOOSE i \in 1..Len(batch) :
    /\ ~WellFormed(batch[i][2])
    /\ \A j \in 1..(i - 1) : WellFormed(batch[j][2])

C6_MalformedLeavesStateIntact ==
  [][(lastCall'.op = "add_parsed_entities" /\ lastCall'.raised = "KeyError") =>
       \A n \in Room : \A batch \in IngestInputs[n] :
         (HasMalformed(batch) /\ add_parsed_entities(batch)) =>
           /\ correlation_map' =
                IngestAll(correlation_map,
                          SubSeq(batch, 1, FirstMalformed(batch) - 1), 1).map
           /\ relationships' = relationships]_vars

\* a call has raised on a malformed observation with a scored record in the map
C6_Witness ==
  /\ lastCall.op = "add_parsed_entities"
  /\ lastCall.raised = "KeyError"
  /\ \E k \in IdentityKeys(correlation_map) :
       /\ "occurrences" \in DOMAIN correlation_map.val[k]
       /\ "final_score" \in DOMAIN correlation_map.val[k]

(***************************************************************************)
(* C7  Score bound: after any correlate(), 0 <= final_score <= 1 for       *)
(* every entity record, whatever importance hints were supplied, hints     *)
(* below 0 and above 1 included.  The score is read as correlate() reads   *)
(* it.                                                                     *)
(***************************************************************************)
C7_ScoreBound ==
  \A k \in IdentityKeys(correlation_map) :
    /\ 0 <= FinalScore(correlation_map.val[k])
    /\ FinalScore(correlation_map.val[k]) <= 100

HintsOf(rec) ==
  { rec.occurrences[i].importance_score :
      i \in { j \in 1..Len(rec.occurrences) :
                "importance_score" \in DOMAIN rec.occurrences[j] } }

\* correlate() has scored a record hinted above 1 and one hinted below 0
C7_Witness ==
  /\ lastCall.op = "correlate"
  /\ \E k \in IdentityKeys(correlation_map) :
       /\ "final_score" \in DOMAIN correlation_map.val[k]
       /\ \E x \in HintsOf(correlation_map.val[k]) : x > 100
  /\ \E k \in IdentityKeys(correlation_map) :
       /\ "final_score" \in DOMAIN correlation_map.val[k]
       /\ \A x \in HintsOf(correlation_map.val[k]) : x < 0
       /\ HintsOf(correlation_map.val[k]) # {}

(***************************************************************************)
(* C8  After correlate(), every entity record's final_score equals         *)
(* min(1.0, importance + min(0.1 * |sources|, 0.3)                         *)
(*          + min(0.05 * |linked_entities|, 0.2)) on the sets as they      *)
(* stand after the link discovery of that call.                            *)
(***************************************************************************)
C8_FinalScoreFormula ==
  lastCall.op = "correlate" =>
    \A k \in IdentityKeys(correlation_map) :
      LET rec == correlation_map.val[k]
      IN  /\ "final_score" \in DOMAIN rec
          /\ rec.final_score =
               Min(100, rec.importance
                          + Min(10 * Cardinality(rec.sources), 30)
                          + Min(5 * Cardinality(rec.linked_entities), 20))

(***************************************************************************)
(* C9  Monotone scoring: a key that had final_score s after one            *)
(* correlate() has a final_score >= s after the next one, whatever was     *)
(* ingested in between (further distinct sources for the key included).    *)
(***************************************************************************)
C9_MonotoneScoring ==
  lastCall.op = "correlate" =>
    \A k \in DOMAIN lastCall.ret[1] :
      correlation_map.val[k].final_score >= lastCall.ret[1][k]

\* a key scored 0.6 on one source, given a second source, was scored again
C9_Witness ==
  /\ lastCall.op = "correlate"
  /\ \E k \in DOMAIN lastCall.ret[1] :
       /\ lastCall.ret[1][k] = 60
       /\ correlation_map.val[k].importance = 50
       /\ Cardinality(correlation_map.val[k].sources) = 2
       /\ correlation_map.val[k].linked_entities = {}
       /\ correlation_map.val[k].final_score = 70

(***************************************************************************)
(* C10  Link symmetry: in every reachable state, b in linked_entities(a)   *)
(* implies a in linked_entities(b), and no key is in its own               *)
(* linked_entities.                                                        *)
(***************************************************************************)
C10_LinkSymmetry ==
  \A a \in IdentityKeys(correlation_map) :
    /\ a \notin correlation_map.val[a].linked_entities
    /\ \A b \in correlation_map.val[a].linked_entities :
         /\ b \in IdentityKeys(correlation_map)
         /\ a \in correlation_map.val[b].linked_entities

\* two keys are linked, and a call has been made since the links were found
C10_Witness ==
  /\ lastCall.op # "correlate"
  /\ \E a \in IdentityKeys(correlation_map) :
       \E b \in IdentityKeys(correlation_map) :
         /\ a # b
         /\ b \in correlation_map.val[a].linked_entities
         /\ a \in correlation_map.val[b].linked_entities

(***************************************************************************)
(* C11  Determinism: two engines driven by the same sequence of            *)
(* add_raw_data / add_parsed_entities / correlate calls get identical      *)
(* results from correlate(): same counts, same lists in the same order,    *)
(* the common-source list inside each relationship included.  The second   *)
(* engine runs in another interpreter, i.e. under any other string hash;   *)
(* its map is the same and its relationship list differs at most in how    *)
(* the common sources are listed.                                          *)
(***************************************************************************)
ReList(rels, h) ==
  [i \in 1..Len(rels) |->
     [rels[i] EXCEPT !.sources =
        ListOf({ rels[i].sources[j] : j \in 1..Len(rels[i].sources) }, h)]]

C11_Determinism ==
  [][correlate =>
       \A h \in StrHashes :
         CorrelateStep(correlation_map, ReList(relationships, h), h).result
           = returned'[Len(returned')].result]_vars

(***************************************************************************)
(* C12  Observations whose values differ only in letter case or in         *)
(* leading/trailing whitespace resolve to one entity record keyed by       *)
(* lower(trim(value)): ingested from two sources they yield one entity     *)
(* record whose sources are these two, every stored occurrence sits under  *)
(* the normalized form of its value, and correlate() counts each such      *)
(* group of observations as one entity.                                    *)
(***************************************************************************)
\* the batches that bring two spellings of one value from two sources
VariantBatches ==
  { b \in ParsedInputs[2] :
      /\ b[1][1] # b[2][1]
      /\ _normalize_key(b[1][2].value) = _normalize_key(b[2][2].value) }

\* the keys under which observations are stored
ObservedKeys(m) == { k \in DOMAIN m.val : "occurrences" \in DOMAIN m.val[k] }

C12_VariantsShareOneRecord ==
  /\ [](\A k \in ObservedKeys(correlation_map) :
          \A i \in 1..Len(correlation_map.val[k].occurrences) :
            _normalize_key(correlation_map.val[k].occurrences[i].value) = k)
  /\ [](lastCall.op = "correlate" =>
          returned[Len(returned)].result.total_entities
            = Cardinality(ObservedKeys(correlation_map)))
  /\ [][\A b \in VariantBatches :
          add_parsed_entities(b) =>
            LET k == _normalize_key(b[1][2].value)
            IN  /\ Has(correlation_map', k)
                /\ IsEntityRecord(correlation_map'.val[k])
                /\ {b[1][1], b[2][1]} \subseteq correlation_map'.val[k].sources
                /\ Has(correlation_map, k) \/
                     correlation_map'.val[k].sources = {b[1][1], b[2][1]}]_vars

(***************************************************************************)
(* C13  Normalization is idempotent: for every string s,                   *)
(* _normalize_key(_normalize_key(s)) = _normalize_key(s).  The strings are *)
(* the values the engine has been handed and has normalized into keys.     *)
(***************************************************************************)
C13_NormalizeIdempotent ==
  \A k \in ObservedKeys(correlation_map) :
    \A i \in 1..Len(correlation_map.val[k].occurrences) :
      LET s == correlation_map.val[k].occurrences[i].value
      IN  /\ k = _normalize_key(s)
          /\ _normalize_key(_normalize_key(s)) = _normalize_key(s)

\* a value that lower() and strip() both change has been normalized
C13_Witness ==
  \E k \in ObservedKeys(correlation_map) :
    \E i \in 1..Len(correlation_map.val[k].occurrences) :
      LET s == correlation_map.val[k].occurrences[i].value
      IN  /\ k # <<>>
          /\ Len(k) < Len(s)
          /\ LowerStr(s) # s

(***************************************************************************)
(* C14  First-writer-wins typing: a record's type is the first non-empty   *)
(* type among the observations ingested for its key, in ingestion order    *)
(* (the empty string and None do not count as the first writer), and a     *)
(* type once set is never changed by a later add_parsed_entities or        *)
(* correlate() call.                                                       *)
(***************************************************************************)
NonEmptyType(t) == t # "" /\ t # NoneValue

TypedOccurrences(rec) ==
  SelectSeq(rec.occurrences, LAMBDA e : NonEmptyType(e.type))

C14_FirstWriterWinsTyping ==
  /\ [](\A k \in ObservedKeys(correlation_map) :
          LET rec == correlation_map.val[k]
          IN  TypedOccurrences(rec) # <<>>
                => rec.type = TypedOccurrences(rec)[1].type)
  /\ [][\A k \in ObservedKeys(correlation_map) :
          NonEmptyType(correlation_map.val[k].type)
            => /\ Has(correlation_map', k)
               /\ correlation_map'.val[k].type = correlation_map.val[k].type]_vars

(***************************************************************************)
(* C15  Re-ingestion is idempotent on sets: add_parsed_entities called     *)
(* with a batch whose observations are all ingested already, from the      *)
(* same sources, creates no record and leaves every record's sources,      *)
(* linked_entities, type and importance as they were; only the             *)
(* occurrences grow, by exactly the re-ingested observations, appended in  *)
(* order.  (Of a batch with a malformed observation the part before it is  *)
(* what was, and is again, ingested.)                                      *)
(***************************************************************************)
IngestedPart(batch) ==
  IF HasMalformed(batch) THEN SubSeq(batch, 1, FirstMalformed(batch) - 1)
  ELSE batch

AlreadyIngested(m, batch) ==
  \A i \in 1..Len(batch) :
    LET k == _normalize_key(batch[i][2].value)
    IN  /\ k \in ObservedKeys(m)
        /\ batch[i][1] \in m.val[k].sources
        /\ \E j \in 1..Len(m.val[k].occurrences) :
             m.val[k].occurrences[j] = batch[i][2]

\* the observations of a batch that go to key k, in the order of the batch
ObservationsFor(k, batch) ==
  LET mine == SelectSeq(batch, LAMBDA p : _normalize_key(p[2].value) = k)
  IN  [i \in 1..Len(mine) |-> mine[i][2]]

C15_ReingestionIdempotent ==
  [][lastCall'.op = "add_parsed_entities" =>
       \A n \in Room : \A batch \in IngestInputs[n] :
         (/\ IngestedPart(batch) # <<>>
          /\ AlreadyIngested(correlation_map, IngestedPart(batch))
          /\ add_parsed_entities(batch)) =>
           /\ correlation_map'.keys = correlation_map.keys
           /\ \A k \in DOMAIN correlation_map.val :
                LET old == correlation_map.val[k]
                    new == correlation_map'.val[k]
                IN  /\ new.sources = old.sources
                    /\ new.linked_entities = old.linked_entities
                    /\ new.type = old.type
                    /\ new.importance = old.importance
                    /\ DOMAIN new = DOMAIN old
                    /\ new.occurrences =
                         old.occurrences \o ObservationsFor(k, IngestedPart(batch))]_vars

\* an observation has been ingested a second time from the same source,
\* after its record was scored
C15_Witness ==
  /\ lastCall.op = "add_parsed_entities"
  /\ \E k \in ObservedKeys(correlation_map) :
       LET rec == correlation_map.val[k]
       IN  /\ Len(rec.occurrences) = 2
           /\ rec.occurrences[1] = rec.occurrences[2]
           /\ Cardinality(rec.sources) = 1
           /\ "final_score" \in DOMAIN rec

(***************************************************************************)
(* C16  Empty correlation: correlate() on an engine into which no entity   *)
(* observation has been ingested, with or without a corpus, raises no      *)
(* error and returns total_entities, linked_count and high_value_count 0   *)
(* and empty ctf_flags, api_keys, credentials, relationships and           *)
(* high_value_entities.                                                    *)
(***************************************************************************)
EmptyResult ==
  [total_entities |-> 0, linked_count |-> 0, high_value_count |-> 0,
   ctf_flags |-> <<>>, api_keys |-> <<>>, credentials |-> <<>>,
   relationships |-> <<>>, high_value_entities |-> <<>>]

C16_EmptyCorrelation ==
  (lastCall.op = "correlate" /\ ObservedKeys(correlation_map) = {}) =>
    /\ lastCall.raised = "none"
    /\ returned[Len(returned)].result = EmptyResult

\* correlate() has returned on an engine that holds a corpus and no entity
C16_Witness ==
  /\ lastCall.op = "correlate"
  /\ ObservedKeys(correlation_map) = {}
  /\ Has(correlation_map, RAW_DATA)
  /\ correlation_map.val[RAW_DATA].data # <<>>

(***************************************************************************)
(* C17  get_entity_details applied to a value whose normalized key was     *)
(* never ingested returns None, without raising and without creating a     *)
(* record (the keys of correlation_map are the same before and after);     *)
(* applied to a case/whitespace variant of an ingested value it returns    *)
(* that value's record.                                                    *)
(***************************************************************************)
C17_LookupOfUnseenKey ==
  [][\A entity_key \in Lookups :
       get_entity_details(entity_key) =>
         LET k == _normalize_key(entity_key)
         IN  /\ lastCall'.raised = "none"
             /\ correlation_map'.keys = correlation_map.keys
             /\ DOMAIN correlation_map'.val = DOMAIN correlation_map.val
             /\ IF k \in ObservedKeys(correlation_map)
                  THEN lastCall'.ret = <<correlation_map.val[k]>>
                  ELSE lastCall'.ret = <<>>]_vars

(***************************************************************************)
(* C18  add_raw_data is a corpus-only side effect: it stores each content  *)
(* under its source, overwriting what that source had and keeping the      *)
(* content of the other sources, and leaves every entity record and the    *)
(* relationship list unchanged, so that a following correlate() returns    *)
(* what it would have returned without the call.                           *)
(***************************************************************************)
C18_CorpusOnlySideEffect ==
  [][\A raw_data \in RawInputs :
       add_raw_data(raw_data) =>
         /\ lastCall'.raised = "none"
         /\ Has(correlation_map', RAW_DATA)
         /\ IsCorpusEntry(correlation_map'.val[RAW_DATA])
         /\ LET data == correlation_map'.val[RAW_DATA].data
                given == { raw_data[i][1] : i \in 1..Len(raw_data) }
            IN  /\ \A i \in 1..Len(raw_data) :
                     /\ raw_data[i][1] \in DOMAIN data
                     /\ data[raw_data[i][1]] = raw_data[i][2]
                /\ Has(correlation_map, RAW_DATA) =>
                     \A s \in DOMAIN correlation_map.val[RAW_DATA].data \ given :
                       /\ s \in DOMAIN data
                       /\ data[s] = correlation_map.val[RAW_DATA].data[s]
         /\ \A k \in IdentityKeys(correlation_map) :
              /\ Has(correlation_map', k)
              /\ correlation_map'.val[k] = correlation_map.val[k]
         /\ relationships' = relationships
         /\ CorrelateStep(correlation_map', relationships', str_hash).result
              = CorrelateStep(correlation_map, relationships, str_hash).result]_vars

(***************************************************************************)
(* C19  total_entities, as returned by correlate(), is the number of       *)
(* distinct normalized values among the well-formed observations ingested  *)
(* so far, whatever the value strings are.                                 *)
(***************************************************************************)
IngestedValues(m) ==
  UNION { { _normalize_key(m.val[k].occurrences[i].value) :
              i \in 1..Len(m.val[k].occurrences) } : k \in ObservedKeys(m) }

C19_TotalEntitiesCountsEveryValue ==
  lastCall.op = "correlate" =>
    returned[Len(returned)].result.total_entities
      = Cardinality(IngestedValues(correlation_map))

(***************************************************************************)
(* C20  In every result of correlate(), high_value_entities lists exactly  *)
(* the entity keys whose final_score, as computed in that call, is >= 0.8  *)
(* (each once), high_value_count is its length, and linked_count is the    *)
(* number of entity keys whose linked_entities set is non-empty.           *)
(***************************************************************************)
Elements(seq) == { seq[i] : i \in 1..Len(seq) }

BucketOf(result, records, bucket, type) ==
  /\ Elements(bucket) = { k \in DOMAIN records :
                            IsEntityRecord(records[k]) /\ records[k].type = type }
  /\ Cardinality(Elements(bucket)) = Len(bucket)
  /\ \A k \in Elements(bucket) : _normalize_key(k) = k

C21_ClassificationBuckets ==
  lastCall.op = "correlate" =>
    LET result == returned[Len(returned)].result
        records == returned[Len(returned)].records
    IN  /\ BucketOf(result, records, result.ctf_flags, "CTF_FLAG")
        /\ BucketOf(result, records, result.api_keys, "API_KEY")
        /\ BucketOf(result, records, result.credentials, "CREDENTIAL")
        /\ Elements(result.ctf_flags) \cap Elements(result.api_keys) = {}
        /\ Elements(result.ctf_flags) \cap Elements(result.credentials) = {}
        /\ Elements(result.api_keys) \cap Elements(result.credentials) = {}

(***************************************************************************)
(* C22  Link discovery is exact: right after correlate(), for all          *)
(* distinct entity keys a and b, b is in linked_entities(a) iff sources(a) *)
(* and sources(b) have a common element, and the relationship emitted for  *)
(* the pair in that pass has kind 'co_occurrence' and strength the size of *)
(* the intersection; if no two distinct keys share a source, linked_count  *)
(* is 0 and relationships is empty.                                        *)
(***************************************************************************)
\* the positions of the records of the pair {a, b} in a relationship list
RecordsOf(rels, a, b) == { i \in 1..Len(rels) : PairOf(rels[i]) = {a, b} }

C22_LinkDiscoveryExact ==
  lastCall.op = "correlate" =>
    LET result == returned[Len(returned)].result
        m == correlation_map
    IN  /\ \A a \in IdentityKeys(m) : \A b \in IdentityKeys(m) \ {a} :
             /\ b \in m.val[a].linked_entities <=> Common(m, a, b) # {}
             /\ Common(m, a, b) # {} =>
                  /\ RecordsOf(result.relationships, a, b) # {}
                  /\ LET last == CHOOSE i \in RecordsOf(result.relationships, a, b) :
                                   \A j \in RecordsOf(result.relationships, a, b) : j <= i
                     IN  /\ result.relationships[last].relationship = "co_occurrence"
                         /\ result.relationships[last].strength
                              = Cardinality(Common(m, a, b))
                         /\ result.relationships[last].strength >= 1
        /\ SharingPairs(m) = {} =>
             /\ result.linked_count = 0
             /\ result.relationships = <<>>

(***************************************************************************)
(* C23  Stable first-insertion order: the keys of the map keep the order   *)
(* in which they were first ingested, and correlate() follows it:          *)
(* ctf_flags, api_keys, credentials and high_value_entities list keys in   *)
(* that order, every relationship has entity1 first ingested before        *)
(* entity2, and the relationships produced in one pass are ordered         *)
(* lexicographically by (position of entity1, position of entity2).        *)
(***************************************************************************)
IsPrefix(s, t) == Len(s) <= Len(t) /\ SubSeq(t, 1, Len(s)) = s

\* the place of key k in the insertion order of the map
Position(keys, k) == CHOOSE i \in 1..Len(keys) : keys[i] = k

InInsertionOrder(keys, list) ==
  \A i, j \in 1..Len(list) :
    i < j => Position(keys, list[i]) < Position(keys, list[j])

C23_FirstInsertionOrder ==
  [][/\ IsPrefix(correlation_map.keys, correlation_map'.keys)
     /\ lastCall'.op = "correlate" =>
          LET keys == correlation_map'.keys
              result == returned'[Len(returned')].result
              pass == SubSeq(relationships', Len(relationships) + 1,
                             Len(relationships'))
              P1(r) == Position(keys, r.entity1)
              P2(r) == Position(keys, r.entity2)
          IN  /\ InInsertionOrder(keys, result.ctf_flags)
              /\ InInsertionOrder(keys, result.api_keys)
              /\ InInsertionOrder(keys, result.credentials)
              /\ InInsertionOrder(keys, result.high_value_entities)
              /\ \A i \in 1..Len(pass) : P1(pass[i]) < P2(pass[i])
              /\ \A i, j \in 1..Len(pass) :
                   i < j => \/ P1(pass[i]) < P1(pass[j])
                            \/ /\ P1(pass[i]) = P1(pass[j])
                               /\ P2(pass[i]) < P2(pass[j])]_vars

\* correlate() has returned two flags and three relationships of one pass,
\* in an order that is the insertion order and not the alphabetical one
C23_Witness ==
  /\ lastCall.op = "correlate"
  /\ correlation_map.keys = << <<"c">>, <<"a">>, <<"b">> >>
  /\ returned[Len(returned)].result.ctf_flags = << <<"c">>, <<"b">> >>
  /\ Len(relationships) = 3
  /\ relationships[1].entity1 = <<"c">> /\ relationships[1].entity2 = <<"a">>
  /\ relationships[2].entity1 = <<"c">> /\ relationships[2].entity2 = <<"b">>
  /\ relationships[3].entity1 = <<"a">> /\ relationships[3].entity2 = <<"b">>

(***************************************************************************)
(* C24  Engine instances share no state: a call of add_raw_data,           *)
(* add_parsed_entities, correlate or get_entity_details on one instance    *)
(* leaves the other's correlation_map and relationships unchanged; and     *)
(* within one engine no two records share a sources or linked_entities     *)
(* set: add_parsed_entities changes the sets of no key it has no           *)
(* observation for, and correlate() changes no sources set and adds to     *)
(* linked_entities(k) only keys that share a source with k.                *)
(***************************************************************************)
EngineCalls ==
  {"add_raw_data", "add_parsed_entities", "correlate", "get_entity_details"}

C24_NoSharedState ==
  [][/\ lastCall'.op \in EngineCalls => other' = other
     /\ lastCall'.op = "add_parsed_entities" =>
          \A k \in ObservedKeys(correlation_map) :
            correlation_map'.val[k].occurrences = correlation_map.val[k].occurrences
              => /\ correlation_map'.val[k].sources = correlation_map.val[k].sources
                 /\ correlation_map'.val[k].linked_entities
                      = correlation_map.val[k].linked_entities
     /\ lastCall'.op = "correlate" =>
          \A k \in IdentityKeys(correlation_map) :
            /\ correlation_map'.val[k].sources = correlation_map.val[k].sources
            /\ \A j \in correlation_map'.val[k].linked_entities
                          \ correlation_map.val[k].linked_entities :
                 Common(correlation_map, k, j) # {}]_vars

\* correlate() has returned on one instance while the other instance holds
\* linked entities and a relationship of its own
C24_Witness ==
  /\ lastCall.op = "correlate"
  /\ Has(correlation_map, RAW_DATA)
  /\ relationships = <<>>
  /\ other.relationships # <<>>
  /\ \E k \in IdentityKeys(other.correlation_map) :
       other.correlation_map.val[k].linked_entities # {}

(***************************************************************************)
(* C25  The importance model is a total function into [0, 1]:              *)
(* score_entity_importance returns 1.0 for CTF_FLAG, API_KEY, CREDENTIAL;  *)
(* 0.8 for IP_ADDRESS, URL, FILE_PATH, EMAIL; 0.6 for PERSON, ORG, GPE;    *)
(* 0.75 for any other type whose name contains 'HASH'; 0.5 for every       *)
(* other entity, of unknown type or with no 'type' field; it never         *)
(* raises.  The types are strings.                                         *)
(***************************************************************************)
ClaimedImportance(entity) ==
  IF "type" \notin DOMAIN entity THEN 50
  ELSE CASE entity.type \in {"CTF_FLAG", "API_KEY", "CREDENTIAL"} -> 100
         [] entity.type \in {"IP_ADDRESS", "URL", "FILE_PATH", "EMAIL"} -> 80
         [] entity.type \in {"PERSON", "ORG", "GPE"} -> 60
         [] entity.type \in {"HASH", "MD5_HASH", "HASHES"} -> 75
         [] OTHER -> 50

C28_FilterNoise ==
  lastCall.op = "filter_noise" =>
    LET entities == lastCall.ret[1].entities
        min_score == lastCall.ret[1].min_score
        filtered == lastCall.ret[1].filtered
    IN  /\ \A i \in 1..Len(entities) :
             /\ "importance_score" \in DOMAIN entities[i]
             /\ entities[i].importance_score = ClaimedImportance(entities[i])
        /\ filtered = SelectSeq(entities,
                                LAMBDA e : ClaimedImportance(e) >= min_score)
        /\ Len(filtered) <= Len(entities)
        /\ min_score <= 100 =>
             \A i \in 1..Len(entities) :
               ("type" \in DOMAIN entities[i]
                  /\ entities[i].type \in {"CTF_FLAG", "API_KEY", "CREDENTIAL"})
                 => \E j \in 1..Len(filtered) : filtered[j] = entities[i]

\* filter_noise has kept an entity whose score is the threshold and dropped
\* one below it
C28_Witness ==
  /\ lastCall.op = "filter_noise"
  /\ Len(lastCall.ret[1].filtered) = 1
  /\ Len(lastCall.ret[1].entities) = 2
  /\ lastCall.ret[1].filtered[1].importance_score = lastCall.ret[1].min_score
  /\ lastCall.ret[1].entities[1].importance_score < lastCall.ret[1].min_score

(***************************************************************************)
(* C26  final_score is written only by correlate(): a call of              *)
(* add_parsed_entities, add_raw_data or get_entity_details leaves every    *)
(* record's final_score as it was, present with the same value or absent,  *)
(* and a record such a call creates has none; so a record has no           *)
(* final_score before the first correlate() after its creation.            *)
(***************************************************************************)
C26_ScoreOnlyByCorrelate ==
  [][lastCall'.op \in {"add_parsed_entities", "add_raw_data", "get_entity_details"} =>
       \A k \in DOMAIN correlation_map'.val :
         IF k \in DOMAIN correlation_map.val
              /\ "final_score" \in DOMAIN correlation_map.val[k]
           THEN /\ "final_score" \in DOMAIN correlation_map'.val[k]
                /\ correlation_map'.val[k].final_score
                     = correlation_map.val[k].final_score
           ELSE "final_score" \notin DOMAIN correlation_map'.val[k]]_vars

\* an ingestion after a correlate() has created a record, which has no
\* score, next to a record that has one
C26_Witness ==
  /\ lastCall.op = "add_parsed_entities"
  /\ \E k \in DOMAIN correlation_map.val :
       "final_score" \in DOMAIN correlation_map.val[k]
  /\ \E k \in DOMAIN correlation_map.val :
       /\ k # RAW_DATA
       /\ "final_score" \notin DOMAIN correlation_map.val[k]

(***************************************************************************)
(* ReportGenerator._display_relationships                                  *)
(***************************************************************************)
\* x.get('strength', 0)
StrengthOf(x) == IF "strength" \in DOMAIN x THEN x.strength ELSE 0

\* where a stable descending sort puts x among those sorted before it:
\* after every element that is at least as strong
InsertByStrength(sorted_rels, x) ==
  LET n == Cardinality({ i \in 1..Len(sorted_rels) :
                           StrengthOf(sorted_rels[i]) >= StrengthOf(x) })
  IN  SubSeq(sorted_rels, 1, n) \o <<x>> \o SubSeq(sorted_rels, n + 1, Len(sorted_rels))

\* where an ascending stable sort, read backwards, puts x: before every
\* element that is at most as strong
InsertByStrength_Backwards(sorted_rels, x) ==
  LET n == Cardinality({ i \in 1..Len(sorted_rels) :
                           StrengthOf(sorted_rels[i]) > StrengthOf(x) })
  IN  SubSeq(sorted_rels, 1, n) \o <<x>> \o SubSeq(sorted_rels, n + 1, Len(sorted_rels))

\* sorted(relationships, key=lambda x: x.get('strength', 0), reverse=True):
\* a new list; sorted() is stable, also with reverse=True
RECURSIVE SortedFrom(_, _, _)
SortedFrom(rels, i, sorted_rels) ==
  IF i > Len(rels) THEN sorted_rels
  ELSE SortedFrom(rels, i + 1, InsertByStrength(sorted_rels, rels[i]))

\* SortedByStrength as sorted(relationships, key=...)[::-1]
SortedByStrength_AscendingReversed(rels) ==
  LET RECURSIVE Back(_, _)
      Back(i, acc) == IF i > Len(rels) THEN acc
                      ELSE Back(i + 1, InsertByStrength_Backwards(acc, rels[i]))
  IN  Back(1, <<>>)

SortedByStrength(rels) == SortedFrom(rels, 1, <<>>)

\* the 10 of sorted(...)[:10]
TOP_RELATIONSHIPS == 10

\* the rows of the table: nothing when the list is missing or empty
ShownRelationships(correlation) ==
  LET rels == IF "relationships" \in DOMAIN correlation
                THEN correlation.relationships ELSE <<>>
  IN  IF rels = <<>> THEN <<>>
      ELSE SubSeq(SortedByStrength(rels), 1, Min(TOP_RELATIONSHIPS, Len(rels)))

\* The report of results with more relationships than the table shows.
\* MaxListed bounds the length of the list.
MaxListed == 11

Letters == <<"a", "b", "c", "d", "e", "f", "g", "h", "i", "j", "k", "l", "m">>

\* the i-th relationship of a result, of strength 2 if i is in strong
ListedRelationship(i, strong) ==
  [entity1 |-> <<"z">>,
   entity2 |-> <<Letters[i]>>,
   relationship |-> "co_occurrence",
   sources |-> IF i \in strong THEN <<"s1", "s2">> ELSE <<"s1">>,
   strength |-> IF i \in strong THEN 2 ELSE 1]

\* results whose list has up to MaxListed relationships of strength 1, but
\* for at most two of them of strength 2, and a dict with no list
ReportInputs ==
  { [relationships |-> [i \in 1..n |-> ListedRelationship(i, strong)]] :
      n \in 0..MaxListed,
      strong \in {{}} \cup { {i, j} : i \in 1..MaxListed, j \in 1..MaxListed } }
  \cup { [total_entities |-> 0] }

\* lastCall.ret holds the dict that was passed, as the call leaves it, and
\* the rows shown
_display_relationships(correlation) ==
  /\ lastCall' = [op |-> "_display_relationships", raised |-> "none",
                  ret |-> <<[correlation |-> correlation,
                            shown |-> ShownRelationships(correlation)]>>]
  /\ UNCHANGED <<correlation_map, relationships, str_hash, returned, other>>

NextReport ==
  \E correlation \in ReportInputs : _display_relationships(correlation)

SpecReport == Init /\ [][NextReport]_vars

(***************************************************************************)
(* C27  Top-K selection: the relationships the report shows are the first  *)
(* min(10, n) of the relationship list sorted by strength, strongest       *)
(* first, relationships of equal strength in the order they have in the    *)
(* list; the list of the result is neither reordered nor modified.         *)
(***************************************************************************)
\* the place of the i-th relationship in the claimed order: one more than
\* the number of relationships that are stronger, or as strong and earlier
ClaimedRank(rels, i) ==
  1 + Cardinality({ j \in 1..Len(rels) :
                      \/ rels[j].strength > rels[i].strength
                      \/ rels[j].strength = rels[i].strength /\ j < i })

C27_TopKSelection ==
  (lastCall.op = "_display_relationships"
     /\ "relationships" \in DOMAIN lastCall.ret[1].correlation) =>
    LET rels == lastCall.ret[1].correlation.relationships
        shown == lastCall.ret[1].shown
    IN  /\ Len(shown) = Min(10, Len(rels))
        /\ \A i \in 1..Len(rels) :
             ClaimedRank(rels, i) <= 10 => shown[ClaimedRank(rels, i)] = rels[i]
        /\ \A i \in 1..Len(rels) : rels[i].entity2 = <<Letters[i]>>

\* eleven relationships, the last one stronger than the others: it is shown
\* first, the next nine in list order, and the tenth of the list is left out
C27_Witness ==
  /\ lastCall.op = "_display_relationships"
  /\ "relationships" \in DOMAIN lastCall.ret[1].correlation
  /\ Len(lastCall.ret[1].correlation.relationships) = 11
  /\ Len(lastCall.ret[1].shown) = 10
  /\ lastCall.ret[1].shown[1] = lastCall.ret[1].correlation.relationships[11]
  /\ lastCall.ret[1].shown[2] = lastCall.ret[1].correlation.relationships[1]
  /\ lastCall.ret[1].shown[10] = lastCall.ret[1].correlation.relationships[9]
  /\ lastCall.ret[1].shown[2].strength = lastCall.ret[1].shown[10].strength

(***************************************************************************)
(* C29  A result returned by correlate() is a stable snapshot: no later    *)
(* call on the same engine changes any field of it, in particular the      *)
(* length and contents of its relationships list.  Stated for the results  *)
(* returned since the latest ingestion: each reads now as it did when it   *)
(* was returned.                                                           *)
(***************************************************************************)
C29_StableSnapshot ==
  \A i \in 1..Len(returned) : HeldResult(returned[i]) = returned[i].result

(***************************************************************************)
(* C30  Repeating correlate() with no ingestion in between leaves every    *)
(* entity record unchanged (linked_entities, final_score, type, sources,   *)
(* occurrences, importance), and total_entities, linked_count,             *)
(* high_value_entities and the three classification buckets of the two     *)
(* results are equal.                                                      *)
(***************************************************************************)
C30_RepeatedCorrelate ==
  Len(returned) = 2 =>
    /\ returned[2].records = returned[1].records
    /\ \A f \in {"total_entities", "linked_count", "high_value_entities",
                 "ctf_flags", "api_keys", "credentials"} :
         returned[2].result[f] = returned[1].result[f]

\* the second pass has run on linked, scored records, and has added to the
\* relationship list
C30_Witness ==
  /\ Len(returned) = 2
  /\ Len(returned[2].result.relationships) > Len(returned[1].result.relationships)
  /\ \E k \in DOMAIN returned[1].records :
       /\ k # RAW_DATA
       /\ returned[1].records[k].linked_entities # {}
       /\ returned[1].records[k].final_score < 100

====
